---- MODULE Spec2Model ----
(***************************************************************************)
(* Model of PricingRules (src/src/pricingRules.ts, the class at lines      *)
(* 122-1617): catalog loading, batch pricing (getPrice), per-booking       *)
(* pricing (calculatePrice), room pricing (calculateRoomPrice) and the     *)
(* surcharge resolver (calculateAdditionalCosts).                          *)
(*                                                                         *)
(* Conventions.  Instants are minutes of venue wall-clock time counted     *)
(* from local midnight of the booking's start date (the process runs in    *)
(* the venue's zone, so toZonedTime keeps the wall clock).  NaT is an      *)
(* unparseable instant (Invalid Date).  Money is in cents.  A JavaScript   *)
(* number that is undefined or 0 behaves the same in every test the code   *)
(* makes on it (|| and &&), so "undefined" rates and minimum hours are 0.  *)
(* Generated uuids are not modelled: no computation reads them.            *)
(***************************************************************************)
EXTENDS Integers, Sequences, FiniteSets, TLC

VARIABLES
  rules,              \* this.rules: [loaded, rooms: roomSlug -> room rule set]
  timePeriods,        \* this.timePeriods is loaded
  additionalCosts,    \* this.additionalCosts: [loaded, resources, conditions]
  taxCache,           \* this.taxCache: grand total -> tax
  totalWithTaxCache,  \* this.totalWithTaxCache: grand total -> total with tax
  pc,                 \* where the current getPrice call is
  retries,            \* initialize: failed attempts of the running call
  data,               \* the request of the current getPrice call
  tasks,              \* the per-booking promises of the current call
  customLineItems,    \* getPrice's customLineItems map
  response,           \* what the last finished getPrice call returned
  calls,              \* getPrice calls made so far
  previous,           \* history: the response of the call before the last
  input,              \* arguments of a function checked on its own
  output              \* <<its result>>, <<>> before it has run

vars ==
  <<rules, timePeriods, additionalCosts, taxCache, totalWithTaxCache, pc,
    retries, data, tasks, customLineItems, response, calls, previous, input,
    output>>

instanceVars ==
  <<rules, timePeriods, additionalCosts, taxCache, totalWithTaxCache, pc,
    retries, data, tasks, customLineItems, response, calls, previous>>

\* ------------------------------------------------------------------ time

NaT == -1

EVENING_HOUR == 17

MORNING_HOUR == 5

\* date-fns differenceInHours: the difference in whole hours, truncated
\* toward zero.
differenceInHours(end, start) ==
  IF end >= start THEN (end - start) \div 60 ELSE -((start - end) \div 60)

\* Date.prototype.getHours
getHours(t) == (t % 1440) \div 60

\* Date.prototype.getMinutes
getMinutes(t) == t % 60

\* d = new Date(t); d.setHours(h, 0, 0, 0)
setHours(t, h) == (t \div 1440) * 1440 + h * 60

isEveningTime(time) ==
  getHours(time) >= EVENING_HOUR \/ getHours(time) < MORNING_HOUR

isCrossoverPeriod(startTime, endTime) ==
  getHours(startTime) < EVENING_HOUR /\ getHours(endTime) >= EVENING_HOUR

\* A key of data.rentalDates.  form is how the string is written: "date"
\* for a date-only ISO string (2024-03-04), "datetime" for a date and time
\* without offset (2024-03-04T00:00:00), "invalid" for a string that is no
\* date; day is the weekday of the calendar date the string names.
DateKey(form, day) == [form |-> form, day |-> day]

previousDay(day) ==
  CASE day = "Monday" -> "Sunday"
    [] day = "Tuesday" -> "Monday"
    [] day = "Wednesday" -> "Tuesday"
    [] day = "Thursday" -> "Wednesday"
    [] day = "Friday" -> "Thursday"
    [] day = "Saturday" -> "Friday"
    [] day = "Sunday" -> "Saturday"
    [] OTHER -> day

\* isNaN(new Date(date).getTime())
isInvalidDate(date) == date.form = "invalid"

\* format(new Date(date), "EEEE").  new Date reads a date-only string as
\* midnight UTC and a date-time without offset as local time; format prints
\* the local weekday, and local midnight in the venue's zone is 04:00 or
\* 05:00 UTC, so a date-only key prints as the day before.
formatEEEE(date) ==
  IF date.form = "date" THEN previousDay(date.day) ELSE date.day

\* ------------------------------------------------------------ day rules

NoPeriod ==
  [present |-> FALSE, type |-> "", public |-> 0, private |-> 0,
   minimumHours |-> 0, crossoverRate |-> 0]

PeriodRule(type, public, private, minimumHours, crossoverRate) ==
  [present |-> TRUE, type |-> type, public |-> public, private |-> private,
   minimumHours |-> minimumHours, crossoverRate |-> crossoverRate]

NoFullDay ==
  [present |-> FALSE, type |-> "", public |-> 0, private |-> 0,
   minimumHours |-> 0]

FullDayRule(type, public, private, minimumHours) ==
  [present |-> TRUE, type |-> type, public |-> public, private |-> private,
   minimumHours |-> minimumHours]

DayRule(fullDay, daytime, evening, minimumHours) ==
  [fullDay |-> fullDay, daytime |-> daytime, evening |-> evening,
   minimumHours |-> minimumHours]

\* rule[isPrivate ? "private" : "public"]
tierRate(rule, isPrivate) == IF isPrivate THEN rule.private ELSE rule.public

\* a || b on numbers
orElse(a, b) == IF a # 0 THEN a ELSE b

\* The rewrite getDayRules performs on the day rule it found: a top-level
\* minimumHours is copied into each period that has none of its own and is
\* then deleted from the rule.
distributeMinimumHours(found) ==
  IF found.minimumHours # 0
  THEN [found EXCEPT
          !.evening = IF found.evening.present
                      THEN [found.evening EXCEPT
                              !.minimumHours = orElse(@, found.minimumHours)]
                      ELSE found.evening,
          !.daytime = IF found.daytime.present
                      THEN [found.daytime EXCEPT
                              !.minimumHours = orElse(@, found.minimumHours)]
                      ELSE found.daytime,
          !.minimumHours = 0]
  ELSE found

\* roomRules[dayOfWeek] || roomRules["all"], as the key that is used ("" when
\* neither exists).
dayRuleKey(roomRules, dayOfWeek) ==
  IF dayOfWeek \in DOMAIN roomRules THEN dayOfWeek
  ELSE IF "all" \in DOMAIN roomRules THEN "all"
  ELSE ""

\* getDayRules: found is FALSE for the null result; rules is the day rule the
\* caller gets (the object after the rewrite) and roomRules the room's rule
\* set as getDayRules leaves it in the catalog.
getDayRulesStale(roomRules, dayOfWeek) ==
  LET key == dayRuleKey(roomRules, dayOfWeek) IN
  IF key = ""
  THEN [found |-> FALSE, rules |-> DayRule(NoFullDay, NoPeriod, NoPeriod, 0),
        roomRules |-> roomRules]
  ELSE [found |-> TRUE, rules |-> roomRules[key],
        roomRules |-> [roomRules EXCEPT ![key] = distributeMinimumHours(@)]]

getDayRules(roomRules, dayOfWeek) ==
  LET key == dayRuleKey(roomRules, dayOfWeek) IN
  IF key = ""
  THEN [found |-> FALSE, rules |-> DayRule(NoFullDay, NoPeriod, NoPeriod, 0),
        roomRules |-> roomRules]
  ELSE [found |-> TRUE, rules |-> distributeMinimumHours(roomRules[key]),
        roomRules |-> [roomRules EXCEPT ![key] = distributeMinimumHours(@)]]

\* ---------------------------------------------------------- room pricing

\* hourlyRate is null (0 here) for a flat rule.  The roomSlug parameter only
\* feeds the isSouthernCrossSpecialHours flag, which no caller reads.
calculateHoursAndCost(start, end, rate, rateType, crossoverRate) ==
  LET hours == differenceInHours(end, start)
      effectiveRate == IF isCrossoverPeriod(start, end) /\ crossoverRate # 0
                       THEN crossoverRate ELSE rate
  IN [hours |-> hours,
      cost |-> IF rateType = "flat" THEN rate ELSE effectiveRate * hours,
      hourlyRate |-> IF rateType = "flat" THEN 0 ELSE effectiveRate,
      crossoverApplied |-> effectiveRate # rate]

\* The BookingRates fields calculatePrice reads.
BookingRates(basePrice, daytimeHours, eveningHours, daytimePrice, eveningPrice, daytimeRate, eveningRate, daytimeRateType, eveningRateType, crossoverApplied, isFullDay, fullDayPrice) ==
  [basePrice |-> basePrice, daytimeHours |-> daytimeHours,
   eveningHours |-> eveningHours, daytimePrice |-> daytimePrice,
   eveningPrice |-> eveningPrice, daytimeRate |-> daytimeRate,
   eveningRate |-> eveningRate, daytimeRateType |-> daytimeRateType,
   eveningRateType |-> eveningRateType,
   crossoverApplied |-> crossoverApplied, isFullDay |-> isFullDay,
   fullDayPrice |-> fullDayPrice]

eveningStartTimeOf(startDateTime) == setHours(startDateTime, EVENING_HOUR)

bookingCrossesEveningThreshold(startDateTime, endDateTime) ==
  startDateTime < eveningStartTimeOf(startDateTime)
  /\ endDateTime > eveningStartTimeOf(startDateTime)

\* The guard of the daytime block (line 826).
hasDaytimeSegment(startDateTime, endDateTime, dayRules) ==
  /\ ~(isEveningTime(startDateTime) /\ isEveningTime(endDateTime))
  /\ startDateTime < eveningStartTimeOf(startDateTime)
  /\ dayRules.daytime.present

hasEveningSegmentUnguarded(startDateTime, endDateTime, dayRules) ==
  dayRules.evening.present

\* The guard of the evening block (line 853).
hasEveningSegment(startDateTime, endDateTime, dayRules) ==
  endDateTime > eveningStartTimeOf(startDateTime) /\ dayRules.evening.present

daytimeSegmentFloored(startDateTime, endDateTime, dayRules, isPrivate) ==
  LET r == calculateHoursAndCost(
             startDateTime,
             IF bookingCrossesEveningThreshold(startDateTime, endDateTime)
             THEN eveningStartTimeOf(startDateTime) ELSE endDateTime,
             tierRate(dayRules.daytime, isPrivate),
             dayRules.daytime.type, dayRules.daytime.crossoverRate)
  IN IF dayRules.daytime.type # "flat"
        /\ r.hours < dayRules.daytime.minimumHours
     THEN [r EXCEPT !.cost = r.hourlyRate * dayRules.daytime.minimumHours]
     ELSE r

\* The calculateHoursAndCost call of the daytime block (lines 827-843).
daytimeSegment(startDateTime, endDateTime, dayRules, isPrivate) ==
  calculateHoursAndCost(
    startDateTime,
    IF bookingCrossesEveningThreshold(startDateTime, endDateTime)
    THEN eveningStartTimeOf(startDateTime) ELSE endDateTime,
    tierRate(dayRules.daytime, isPrivate),
    dayRules.daytime.type, dayRules.daytime.crossoverRate)

\* The calculateHoursAndCost call of the evening block (lines 854-870).
eveningSegment(startDateTime, endDateTime, dayRules, isPrivate) ==
  calculateHoursAndCost(
    IF bookingCrossesEveningThreshold(startDateTime, endDateTime)
    THEN eveningStartTimeOf(startDateTime) ELSE startDateTime,
    endDateTime,
    tierRate(dayRules.evening, isPrivate),
    dayRules.evening.type, dayRules.evening.crossoverRate)

\* The fullDay branch of calculateRoomPrice (lines 786-823).
fullDayRoomPrice(dayRules, isPrivate) ==
  LET fullDayPrice == tierRate(dayRules.fullDay, isPrivate)
  IN BookingRates(fullDayPrice, 0, 0, 0, 0, 0, 0, "flat", "flat", FALSE,
                  TRUE, fullDayPrice)

\* The daytime and evening blocks of calculateRoomPrice and its final return
\* (lines 825-930).  daytimeRateType is never assigned and stays "".
splitRoomPrice(startDateTime, endDateTime, dayRules, isPrivate) ==
  LET hasDaytime == hasDaytimeSegment(startDateTime, endDateTime, dayRules)
      hasEvening == hasEveningSegment(startDateTime, endDateTime, dayRules)
      day == daytimeSegment(startDateTime, endDateTime, dayRules, isPrivate)
      eve == eveningSegment(startDateTime, endDateTime, dayRules, isPrivate)
      daytimePrice == IF hasDaytime THEN day.cost ELSE 0
      eveningPrice == IF hasEvening THEN eve.cost ELSE 0
  IN BookingRates(
       daytimePrice + eveningPrice,
       IF hasDaytime THEN day.hours ELSE 0,
       IF hasEvening THEN eve.hours ELSE 0,
       daytimePrice,
       eveningPrice,
       IF hasDaytime
       THEN orElse(day.hourlyRate, tierRate(dayRules.daytime, isPrivate))
       ELSE 0,
       IF hasEvening
       THEN orElse(eve.hourlyRate, tierRate(dayRules.evening, isPrivate))
       ELSE 0,
       "",
       IF hasEvening THEN dayRules.evening.type ELSE "",
       IF hasDaytime THEN day.crossoverApplied ELSE FALSE,
       FALSE,
       0)

calculateRoomPriceNoFullDay(startDateTime, endDateTime, dayRules, isPrivate) ==
  splitRoomPrice(startDateTime, endDateTime, dayRules, isPrivate)

calculateRoomPrice(startDateTime, endDateTime, dayRules, isPrivate) ==
  IF dayRules.fullDay.present
  THEN fullDayRoomPrice(dayRules, isPrivate)
  ELSE splitRoomPrice(startDateTime, endDateTime, dayRules, isPrivate)

RECURSIVE sumCosts(_)
sumCosts(costs) ==
  IF costs = <<>> THEN 0 ELSE Head(costs).cost + sumCosts(Tail(costs))

\* The estimate calculatePrice pushes for one room (lines 624-708), with the
\* fields getPrice copies into the response (lines 282-321).
roomEstimate(roomSlug, startDateTime, endDateTime, dayRules, isPrivate, roomAdditionalCosts) ==
  LET r == calculateRoomPrice(startDateTime, endDateTime, dayRules, isPrivate)
  IN [roomSlug |-> roomSlug,
      basePrice |-> r.basePrice,
      daytimeHours |-> r.daytimeHours,
      eveningHours |-> r.eveningHours,
      daytimePrice |-> r.daytimePrice,
      eveningPrice |-> r.eveningPrice,
      fullDayPrice |-> r.fullDayPrice,
      daytimeRate |-> r.daytimeRate,
      eveningRate |-> r.eveningRate,
      daytimeRateType |-> r.daytimeRateType,
      eveningRateType |-> r.eveningRateType,
      crossoverApplied |-> r.crossoverApplied,
      additionalCosts |-> roomAdditionalCosts,
      totalCost |-> r.basePrice + sumCosts(roomAdditionalCosts),
      daytimeMinHours |-> dayRules.daytime.minimumHours,
      eveningMinHours |-> dayRules.evening.minimumHours,
      minimumHours |-> dayRules.minimumHours,
      totalBookingHours |-> differenceInHours(endDateTime, startDateTime),
      isFullDay |-> dayRules.fullDay.present]

\* ------------------------------------------------------ resource catalog

\* A cost line item.  n is the number a description or subDescription
\* template interpolates (hours), 0 when the text has none.
Cost(description, subDescription, n, cost, isRequired, isEditable, roomSlug) ==
  [description |-> description, subDescription |-> subDescription, n |-> n,
   cost |-> cost, isRequired |-> isRequired, isEditable |-> isEditable,
   roomSlug |-> roomSlug]

\* resourceDetails (lines 979-986)
ResourceDetails(booking) ==
  [roomSlug |-> booking.roomSlugs[1],
   isPrivate |-> booking.isPrivate,
   expectedAttendance |-> booking.expectedAttendance,
   startTime |-> booking.startTime,
   endTime |-> booking.endTime,
   projectorIncluded |-> \E i \in DOMAIN booking.resources :
                           booking.resources[i] = "backline"]

\* roomSlug.replace(/-/g, '_')
configRoomSlug(roomSlug) ==
  CASE roomSlug = "living-room" -> "living_room"
    [] roomSlug = "main-hall" -> "main_hall"
    [] roomSlug = "parking-lot" -> "parking_lot"
    [] roomSlug = "southern-cross" -> "southern_cross"
    [] OTHER -> roomSlug

\* c.description?.includes('Projector')
includesProjector(description) ==
  description \in {"Projector", "Projector Screen"}

BARTENDER_COMP_ATTENDANCE == 100

AUDIO_TECH_BASE_HOURS == 7

EARLY_OPEN_RATE == 3000

OPENING_HOUR == 18

NoCost == [isArray |-> FALSE, costs |-> <<>>]

isCompedFromThreshold(details) ==
  details.isPrivate /\ details.expectedAttendance >= BARTENDER_COMP_ATTENDANCE

\* isPrivate && expectedAttendance > 100 (line 1220)
isComped(details) ==
  details.isPrivate /\ details.expectedAttendance > BARTENDER_COMP_ATTENDANCE

OneCost(c) == [isArray |-> FALSE, costs |-> <<c>>]

\* calculateResourceCost: null is NoCost, a single Cost is OneCost, the
\* audio_tech array has isArray TRUE.  resources is additionalCosts.resources
\* as a function from resource id to its configuration.
calculateResourceCost(resourceId, details, resources) ==
  IF resourceId \notin DOMAIN resources THEN NoCost
  ELSE
  LET resourceConfig == resources[resourceId]
      cost == resourceConfig.cost
      description == resourceConfig.description
      subDescription == resourceConfig.subDescription
      hours == differenceInHours(details.endTime, details.startTime)
  IN CASE resourceId = "food" ->
            OneCost(Cost(description, subDescription, 0, cost, TRUE, FALSE, ""))
       [] resourceId = "backline" ->
            LET rooms == resourceConfig.rooms
                has == details.roomSlug \in DOMAIN rooms
            IN OneCost(Cost(
                 IF has /\ rooms[details.roomSlug].description # ""
                 THEN rooms[details.roomSlug].description ELSE description,
                 IF has /\ rooms[details.roomSlug].includes_projector
                 THEN "Includes projector" ELSE subDescription,
                 0,
                 IF has THEN rooms[details.roomSlug].cost ELSE cost,
                 FALSE, FALSE, ""))
       [] resourceId = "bartender" ->
            IF isComped(details)
            THEN OneCost(Cost(IF description # "" THEN description
                              ELSE "Bartender",
                              "Comped for large private event", 0, 0,
                              TRUE, FALSE, ""))
            ELSE OneCost(Cost(IF description # "" THEN description
                              ELSE "Bartender",
                              "hours @ rate/hour", hours, cost * hours,
                              FALSE, FALSE, ""))
       [] resourceId = "projector" ->
            IF details.projectorIncluded THEN NoCost
            ELSE OneCost(Cost(description, subDescription, 0, cost,
                              FALSE, FALSE, ""))
       [] resourceId = "audio_tech" ->
            LET hasOvertime == "audio_tech_overtime" \in DOMAIN resources
                overtimeConfig == resources["audio_tech_overtime"]
                overtimeHours == IF hours > AUDIO_TECH_BASE_HOURS
                                 THEN hours - AUDIO_TECH_BASE_HOURS ELSE 0
                base == Cost(description, subDescription, 0, cost,
                             FALSE, FALSE, "")
            IN [isArray |-> TRUE,
                costs |->
                  IF overtimeHours > 0 /\ hasOvertime
                  THEN <<base,
                         Cost(IF overtimeConfig.description # ""
                              THEN overtimeConfig.description ELSE "Overtime",
                              overtimeConfig.subDescription, 0,
                              overtimeConfig.cost * overtimeHours,
                              FALSE, FALSE, "")>>
                  ELSE <<base>>]
       [] OTHER ->
            OneCost(Cost(description, subDescription, 0,
                         IF resourceConfig.type = "hourly" THEN cost * hours
                         ELSE cost,
                         FALSE, FALSE, ""))

\* a filter keeping the items of s that satisfy ~includesProjector
RECURSIVE withoutProjector(_)
withoutProjector(s) ==
  IF s = <<>> THEN <<>>
  ELSE IF includesProjector(Head(s).description)
       THEN withoutProjector(Tail(s))
       ELSE <<Head(s)>> \o withoutProjector(Tail(s))

\* One iteration of the resource loop of calculateAdditionalCosts (lines
\* 989-1124) for resourceId: acc is [perSlotCosts, customLineItems].
processResource(acc, resourceId, booking, details, resources) ==
  LET rc == calculateResourceCost(resourceId, details, resources)
      single == ~rc.isArray /\ rc.costs # <<>>
      resource == resources[resourceId]
      hours == differenceInHours(booking.endTime, booking.startTime)
  IN
  IF resourceId \notin DOMAIN resources THEN acc
  ELSE IF resourceId = "security" THEN acc
  ELSE IF resourceId = "food" THEN
    IF single
    THEN [acc EXCEPT !.perSlotCosts =
            Append(@, [rc.costs[1] EXCEPT
                         !.isRequired = TRUE,
                         !.subDescription = "Required when food is served"])]
    ELSE acc
  ELSE IF resourceId = "backline" THEN
    LET key == configRoomSlug(details.roomSlug)
        rooms == resources["backline"].rooms
    IN IF key \in DOMAIN rooms
       THEN LET cost == Cost(IF rooms[key].description # ""
                             THEN rooms[key].description ELSE "Backline",
                             "", 0, rooms[key].cost, FALSE, FALSE, "")
                kept == IF rooms[key].includes_projector
                        THEN withoutProjector(acc.perSlotCosts)
                        ELSE acc.perSlotCosts
            IN [acc EXCEPT !.perSlotCosts = Append(kept, cost)]
       ELSE acc
  ELSE IF resourceId = "audio_tech" THEN
    IF rc.isArray
    THEN [acc EXCEPT !.perSlotCosts =
            @ \o [i \in DOMAIN rc.costs |->
                    [rc.costs[i] EXCEPT !.isRequired = FALSE]]]
    ELSE acc
  ELSE IF resourceId = "bartender" THEN
    IF single
    THEN [acc EXCEPT !.perSlotCosts =
            Append(@, [rc.costs[1] EXCEPT !.isRequired = FALSE])]
    ELSE acc
  ELSE IF resource.type = "hourly" THEN
    IF single
    THEN [acc EXCEPT !.perSlotCosts =
            Append(@, [rc.costs[1] EXCEPT
                         !.isRequired = FALSE,
                         !.subDescription = "hours @ rate/hour",
                         !.n = hours])]
    ELSE acc
  ELSE IF resource.type = "flat" THEN
    IF single
    THEN [acc EXCEPT !.perSlotCosts =
            Append(@, [rc.costs[1] EXCEPT !.isRequired = FALSE])]
    ELSE acc
  ELSE IF resource.type = "custom" THEN
    IF single
    THEN [acc EXCEPT !.customLineItems =
            Append(@, [rc.costs[1] EXCEPT !.isRequired = FALSE,
                                          !.isEditable = TRUE])]
    ELSE acc
  ELSE acc

RECURSIVE processResources(_, _, _, _, _)
processResources(acc, ids, booking, details, resources) ==
  IF ids = <<>> THEN acc
  ELSE processResources(
         processResource(acc, Head(ids), booking, details, resources),
         Tail(ids), booking, details, resources)

\* Early Open Staff (lines 1126-1143): Math.ceil of the already truncated
\* hour count.
earlyOpenCosts(booking) ==
  LET venueOpeningTime == setHours(booking.startTime, OPENING_HOUR)
      earlyOpenHours == differenceInHours(venueOpeningTime, booking.startTime)
  IN IF booking.startTime < venueOpeningTime /\ earlyOpenHours > 0
     THEN <<Cost("Early Open Staff (n hours)",
                 "Additional staff for early opening", earlyOpenHours,
                 earlyOpenHours * EARLY_OPEN_RATE, TRUE, FALSE, "")>>
     ELSE <<>>

inSeq(x, s) == \E i \in DOMAIN s : s[i] = x

handleSecurityItemRequestedOnly(booking, resources) ==
  IF ~inSeq("security", booking.resources) THEN <<>>
  ELSE IF "security" \notin DOMAIN resources THEN <<>>
  ELSE <<Cost(resources["security"].description,
              IF resources["security"].subDescription # ""
              THEN resources["security"].subDescription
              ELSE "Will quote separately",
              0, 0, inSeq("parking-lot", booking.roomSlugs), TRUE, "")>>

handleSecurityItem(booking, resources) ==
  IF ~(inSeq("security", booking.resources)
       \/ inSeq("parking-lot", booking.roomSlugs))
  THEN <<>>
  ELSE IF "security" \notin DOMAIN resources THEN <<>>
  ELSE <<Cost(resources["security"].description,
              IF resources["security"].subDescription # ""
              THEN resources["security"].subDescription
              ELSE "Will quote separately",
              0, 0, inSeq("parking-lot", booking.roomSlugs), TRUE, "")>>

\* additionalCosts.conditions filtered by roomSlug, for every booked room in
\* order (lines 1151-1167).
RECURSIVE conditionCosts(_, _)
conditionCosts(roomSlugs, conditions) ==
  IF roomSlugs = <<>> THEN <<>>
  ELSE LET roomSlug == Head(roomSlugs)
           mine == SelectSeq(conditions, LAMBDA c : c.roomSlug = roomSlug)
       IN [i \in DOMAIN mine |->
             Cost(mine[i].description, mine[i].subDescription, 0,
                  mine[i].cost, mine[i].isRequired, FALSE, roomSlug)]
          \o conditionCosts(Tail(roomSlugs), conditions)

NoAdditionalCosts ==
  [perSlotCosts |-> <<>>, additionalCosts |-> <<>>, customLineItems |-> <<>>]

\* calculateAdditionalCosts(booking) with this.additionalCosts = catalog
\* (catalog.loaded is FALSE for null).
calculateAdditionalCosts(booking, catalog) ==
  IF ~catalog.loaded THEN NoAdditionalCosts
  ELSE
  LET acc == processResources(
               [perSlotCosts |-> <<>>, customLineItems |-> <<>>],
               booking.resources, booking, ResourceDetails(booking),
               catalog.resources)
  IN [perSlotCosts |-> acc.perSlotCosts \o earlyOpenCosts(booking),
      additionalCosts |-> conditionCosts(booking.roomSlugs, catalog.conditions),
      customLineItems |-> acc.customLineItems
                          \o handleSecurityItem(booking, catalog.resources)]

\* ------------------------------------------------------- the instance

NoResponse ==
  [returned |-> FALSE, threw |-> FALSE, costEstimates |-> <<>>, customLineItems |-> <<>>,
   grandTotal |-> 0, tax |-> 0, totalWithTax |-> 0]

\* The state the constructor leaves (lines 126-132), with no call running.
Constructed ==
  /\ rules = [loaded |-> FALSE, rooms |-> <<>>]
  /\ timePeriods = FALSE
  /\ additionalCosts = [loaded |-> FALSE, resources |-> <<>>,
                        conditions |-> <<>>]
  /\ taxCache = <<>>
  /\ totalWithTaxCache = <<>>
  /\ pc = "idle"
  /\ retries = 0
  /\ data = <<>>
  /\ tasks = <<>>
  /\ customLineItems = <<>>
  /\ response = NoResponse
  /\ calls = 0
  /\ previous = NoResponse

\* --------------------------------------------------- booking pricing

\* A booking of a request.  id "" is a booking without id; date is the
\* booking's own date field, "" when missing, given as the weekday its start
\* falls on; private and isPrivate are the two privacy fields callers send;
\* timeForm is how startTime and endTime are written: "iso" for full ISO
\* strings, "clock" for HH:mm.
Booking(id, roomSlugs, startTime, endTime, date, private, isPrivate, expectedAttendance, resources) ==
  [id |-> id, roomSlugs |-> roomSlugs, startTime |-> startTime,
   endTime |-> endTime, date |-> date, private |-> private,
   isPrivate |-> isPrivate, expectedAttendance |-> expectedAttendance,
   resources |-> resources, timeForm |-> "iso"]

\* prepareBookingForPricing: error is the message thrown, "" when it returns;
\* booking is the caller's object as the call leaves it, its startTime and
\* endTime overwritten with the full strings (lines 452-453), which is also
\* what the returned copy holds.
prepareBookingForPricing(booking) ==
  IF booking.roomSlugs = <<>>
  THEN [error |-> "Room slugs are undefined or empty in booking",
        booking |-> booking]
  ELSE IF booking.date = ""
  THEN [error |-> "Date is missing in booking data", booking |-> booking]
  ELSE IF booking.startTime = NaT \/ booking.endTime = NaT
  THEN [error |-> "Invalid start or end time in booking data",
        booking |-> [booking EXCEPT !.timeForm = "iso"]]
  ELSE [error |-> "", booking |-> [booking EXCEPT !.timeForm = "iso"]]

\* data.rentalDates once every map callback has run prepareBookingForPricing
\* on its booking.
RECURSIVE preparedEntries(_)
preparedEntries(entries) ==
  IF entries = <<>> THEN <<>>
  ELSE <<IF Head(entries).isArray
         THEN [Head(entries) EXCEPT
                 !.bookings =
                   [i \in DOMAIN @ |-> prepareBookingForPricing(@[i]).booking]]
         ELSE Head(entries)>>
       \o preparedEntries(Tail(entries))

\* The argument getPrice builds for calculatePrice (lines 265-272): date is
\* the rentalDates key and isPrivate is booking.private || false.  startDay
\* stands for the weekday of the start instant, which comes from the booking's
\* own date.
calculatePriceArgument(booking, date) ==
  [roomSlugs |-> booking.roomSlugs, startTime |-> booking.startTime,
   endTime |-> booking.endTime, startDay |-> booking.date, date |-> date,
   isPrivate |-> booking.private,
   expectedAttendance |-> booking.expectedAttendance,
   resources |-> booking.resources]

validateSouthernCrossBefore17(booking) ==
  IF ~inSeq("southern-cross", booking.roomSlugs) THEN ""
  ELSE IF booking.startDay \in {"Saturday", "Sunday"}
  THEN "Southern Cross is not available for weekend bookings"
  ELSE IF \/ getHours(booking.startTime) >= 17
          \/ getHours(booking.endTime) >= 17
          \/ getHours(booking.startTime) < 5
          \/ getHours(booking.endTime) < 5
       THEN "Southern Cross is only available during daytime hours (before 5 PM)"
       ELSE ""

\* The Southern Cross validation (lines 538-559): the message thrown or "".
validateSouthernCross(booking) ==
  IF ~inSeq("southern-cross", booking.roomSlugs) THEN ""
  ELSE IF booking.startDay \in {"Saturday", "Sunday"}
  THEN "Southern Cross is not available for weekend bookings"
  ELSE LET startHour == getHours(booking.startTime)
           endHour == getHours(booking.endTime)
           endMinute == getMinutes(booking.endTime)
       IN IF \/ startHour >= 17
             \/ endHour > 17 \/ (endHour = 17 /\ endMinute > 0)
             \/ startHour < 5 \/ endHour < 5
          THEN "Southern Cross is only available during daytime hours (before 5 PM)"
          ELSE ""

\* calculatePrice up to its first await (lines 538-597): the validations and
\* the call of calculateAdditionalCosts.
calculatePriceBegin(booking, catalog) ==
  LET southernCross == validateSouthernCross(booking) IN
  IF southernCross # ""
  THEN [error |-> southernCross, costs |-> NoAdditionalCosts]
  ELSE IF booking.roomSlugs = <<>> \/ booking.date.form = ""
  THEN [error |-> "Invalid booking", costs |-> NoAdditionalCosts]
  ELSE [error |-> "", costs |-> calculateAdditionalCosts(booking, catalog)]

\* The room loop of calculatePrice (lines 612-711) from room i on: rooms is
\* this.rules as the loop leaves it, error the message thrown ("" if none).
RECURSIVE priceRooms(_, _, _, _, _)
priceRooms(booking, i, additional, rooms, acc) ==
  IF i > Len(booking.roomSlugs)
  THEN [error |-> "", estimates |-> acc, rooms |-> rooms]
  ELSE
  LET roomSlug == booking.roomSlugs[i] IN
  IF roomSlug \notin DOMAIN rooms
  THEN [error |-> "No pricing rules found for room", estimates |-> acc,
        rooms |-> rooms]
  ELSE
  LET found == getDayRules(rooms[roomSlug], formatEEEE(booking.date)) IN
  IF ~found.found
  THEN [error |-> "No pricing rules found for room on day",
        estimates |-> acc, rooms |-> rooms]
  ELSE priceRooms(
         booking, i + 1, additional,
         [rooms EXCEPT ![roomSlug] = found.roomRules],
         Append(acc,
                roomEstimate(roomSlug, booking.startTime, booking.endTime,
                             found.rules, booking.isPrivate,
                             SelectSeq(additional,
                                       LAMBDA c : c.roomSlug = roomSlug))))

RECURSIVE sumTotalCostBaseOnly(_)
sumTotalCostBaseOnly(estimates) ==
  IF estimates = <<>> THEN 0
  ELSE Head(estimates).basePrice + sumTotalCostBaseOnly(Tail(estimates))

RECURSIVE sumTotalCost(_)
sumTotalCost(estimates) ==
  IF estimates = <<>> THEN 0
  ELSE Head(estimates).totalCost + sumTotalCost(Tail(estimates))

NoPrice ==
  [error |-> "", estimates |-> <<>>, perSlotCosts |-> <<>>, slotTotal |-> 0,
   slotCustomLineItems |-> <<>>]

\* calculatePrice after the await (lines 604-738).  catalogRules is this.rules;
\* the result carries this.rules as the call leaves it.
calculatePriceFinish(booking, costs, catalogRules) ==
  IF isInvalidDate(booking.date)
  THEN [price |-> [NoPrice EXCEPT !.error = "Invalid date"],
        rules |-> catalogRules]
  ELSE IF ~catalogRules.loaded
  THEN [price |-> [NoPrice EXCEPT !.error = "Rules are not initialized"],
        rules |-> catalogRules]
  ELSE
  LET r == priceRooms(booking, 1, costs.additionalCosts, catalogRules.rooms,
                      <<>>)
  IN [price |->
        IF r.error # "" THEN [NoPrice EXCEPT !.error = r.error]
        ELSE [error |-> "",
              estimates |-> r.estimates,
              perSlotCosts |-> costs.perSlotCosts,
              slotTotal |-> sumTotalCost(r.estimates)
                            + sumCosts(costs.perSlotCosts)
                            + sumCosts(costs.customLineItems),
              slotCustomLineItems |-> costs.customLineItems],
      rules |-> [catalogRules EXCEPT !.rooms = r.rooms]]

\* ------------------------------------------------------------ getPrice

\* booking.id || uuidv4()
estimateId(booking) == IF booking.id # "" THEN booking.id ELSE "uuid"

CostEstimate(id, date, start, end, estimates, perSlotCosts, slotTotal, lineItems, error) ==
  [id |-> id, date |-> date, start |-> start, end |-> end,
   estimates |-> estimates, perSlotCosts |-> perSlotCosts,
   slotTotal |-> slotTotal, customLineItems |-> lineItems, error |-> error]

NoEstimate ==
  CostEstimate("", DateKey("", ""), NaT, NaT, <<>>, <<>>, 0, <<>>, "")

errorEstimateUnmarked(booking, date, message) ==
  CostEstimate(estimateId(booking), date, booking.startTime, booking.endTime,
               <<>>, <<>>, 0, <<>>, "")

\* The estimate the catch block returns (lines 378-392).
errorEstimate(booking, date, message) ==
  CostEstimate(estimateId(booking), date, booking.startTime, booking.endTime,
               <<>>, <<>>, 0, <<>>, message)

\* formattedEstimates (lines 282-321): the fields are copied; the top-level
\* minimumHours is not.
formatEstimate(e) ==
  [roomSlug |-> e.roomSlug, basePrice |-> e.basePrice,
   daytimeHours |-> e.daytimeHours, eveningHours |-> e.eveningHours,
   daytimePrice |-> e.daytimePrice, eveningPrice |-> e.eveningPrice,
   fullDayPrice |-> e.fullDayPrice, daytimeRate |-> e.daytimeRate,
   daytimeRateType |-> e.daytimeRateType, eveningRate |-> e.eveningRate,
   eveningRateType |-> e.eveningRateType,
   daytimeMinHours |-> e.daytimeMinHours,
   eveningMinHours |-> e.eveningMinHours,
   additionalCosts |-> [i \in DOMAIN e.additionalCosts |->
                          [e.additionalCosts[i] EXCEPT !.isEditable = FALSE,
                                                       !.roomSlug = ""]],
   totalCost |-> e.totalCost, totalBookingHours |-> e.totalBookingHours,
   isFullDay |-> e.isFullDay, crossoverApplied |-> e.crossoverApplied]

\* formattedPerSlotCosts (lines 323-329)
formatPerSlotCosts(costs) ==
  [i \in DOMAIN costs |-> [costs[i] EXCEPT !.isEditable = FALSE]]

\* The estimate of a priced booking (lines 357-370).
pricedEstimate(booking, date, price) ==
  CostEstimate(estimateId(booking), date, booking.startTime, booking.endTime,
               [i \in DOMAIN price.estimates |->
                  formatEstimate(price.estimates[i])],
               formatPerSlotCosts(price.perSlotCosts),
               price.slotTotal, price.slotCustomLineItems, "")

\* One promise of bookingPromises.  settled is its place in the order in
\* which the promises settle after the synchronous pass, 0 for one whose
\* callback never awaited.
Task(date, booking, at, costs, price, result) ==
  [date |-> date, booking |-> booking, at |-> at, costs |-> costs,
   price |-> price, estimate |-> result, settled |-> 0]

\* how many promises have settled after the synchronous pass
settledCount(ts) == Cardinality({i \in DOMAIN ts : ts[i].settled > 0})

\* One callback of bookings.map up to its first await (lines 253-272): the
\* prepare step, then calculatePrice up to its own await.
startTask(date, booking, catalog) ==
  LET prepared == prepareBookingForPricing(booking) IN
  IF prepared.error # ""
  THEN Task(date, prepared.booking, "done", NoAdditionalCosts, NoPrice,
            errorEstimate(prepared.booking, date, prepared.error))
  ELSE LET begun == calculatePriceBegin(
                      calculatePriceArgument(prepared.booking, date), catalog)
       IN IF begun.error # ""
          THEN Task(date, prepared.booking, "rejected", NoAdditionalCosts,
                    [NoPrice EXCEPT !.error = begun.error], NoEstimate)
          ELSE Task(date, prepared.booking, "costs", begun.costs, NoPrice,
                    NoEstimate)

\* The reduce over Object.entries(data.rentalDates) (lines 241-398): entries
\* whose value is not an array add nothing.
RECURSIVE startTasks(_, _)
startTasks(entries, catalog) ==
  IF entries = <<>> THEN <<>>
  ELSE LET entry == Head(entries) IN
       (IF entry.isArray
        THEN [i \in DOMAIN entry.bookings |->
                startTask(entry.date, entry.bookings[i], catalog)]
        ELSE <<>>)
       \o startTasks(Tail(entries), catalog)

\* the estimates in the order in which their promises settled, those that
\* never awaited first
resolvedInSettleOrder(ts) ==
  LET rank(i) == Cardinality({j \in DOMAIN ts :
                                \/ ts[j].settled < ts[i].settled
                                \/ (ts[j].settled = ts[i].settled /\ j < i)})
  IN [k \in DOMAIN ts |-> ts[CHOOSE i \in DOMAIN ts : rank(i) = k - 1].estimate]

\* await Promise.all(bookingPromises) (line 399): the results in the order
\* of the promises
resolvedCostEstimates(ts) == [i \in DOMAIN ts |-> ts[i].estimate]

HST_PERCENT == 13

\* Number(x.toFixed(2)) of x = numerator / denominator cents
toFixed2(numerator, denominator) ==
  (2 * numerator + denominator) \div (2 * denominator)

calculateTaxAnyEntry(grandTotal, cache) ==
  IF DOMAIN cache # {}
  THEN [tax |-> cache[CHOOSE g \in DOMAIN cache : TRUE], cache |-> cache]
  ELSE LET tax == toFixed2(grandTotal * HST_PERCENT, 100)
       IN [tax |-> tax, cache |-> (grandTotal :> tax) @@ cache]

\* calculateTax with this.taxCache = cache: the tax and the cache afterwards.
calculateTax(grandTotal, cache) ==
  IF grandTotal \in DOMAIN cache
  THEN [tax |-> cache[grandTotal], cache |-> cache]
  ELSE LET tax == toFixed2(grandTotal * HST_PERCENT, 100)
       IN [tax |-> tax, cache |-> (grandTotal :> tax) @@ cache]

\* calculateTotalWithTax with both caches: the total and the caches afterwards.
calculateTotalWithTax(grandTotal, cache, totalCache) ==
  IF grandTotal \in DOMAIN totalCache
  THEN [total |-> totalCache[grandTotal], cache |-> cache,
        totalCache |-> totalCache]
  ELSE LET t == calculateTax(grandTotal, cache)
           total == toFixed2(grandTotal + t.tax, 1)
       IN [total |-> total, cache |-> t.cache,
           totalCache |-> (grandTotal :> total) @@ totalCache]

\* calculateSlotTotal(slot) (lines 193-203)
calculateSlotTotal(slot) ==
  LET RECURSIVE estimatesTotal(_)
      estimatesTotal(es) == IF es = <<>> THEN 0
                            ELSE Head(es).totalCost + estimatesTotal(Tail(es))
  IN estimatesTotal(slot.estimates) + sumCosts(slot.perSlotCosts)

\* calculateTotals(costEstimates) (lines 182-191).  The tax is not rounded:
\* tax and totalWithTax are in hundredths of a cent.
calculateTotals(costEstimates) ==
  LET RECURSIVE total(_)
      total(slots) == IF slots = <<>> THEN 0
                      ELSE calculateSlotTotal(Head(slots)) + total(Tail(slots))
      grandTotal == total(costEstimates)
  IN [grandTotal |-> grandTotal, tax |-> grandTotal * HST_PERCENT,
      totalWithTax |-> grandTotal * 100 + grandTotal * HST_PERCENT]

\* estimateTotal + perSlotCostsTotal of one estimate (lines 331-349), a total
\* getPrice computes and only logs.
totalForThisBooking(e) ==
  LET RECURSIVE rooms(_)
      rooms(es) == IF es = <<>> THEN 0
                   ELSE Head(es).totalCost + sumCosts(Head(es).additionalCosts)
                        + rooms(Tail(es))
  IN rooms(e.estimates) + sumCosts(e.perSlotCosts)

RECURSIVE grandTotalOfBookingTotals(_)
grandTotalOfBookingTotals(costEstimates) ==
  IF costEstimates = <<>> THEN 0
  ELSE totalForThisBooking(Head(costEstimates))
       + grandTotalOfBookingTotals(Tail(costEstimates))

\* costEstimates.reduce((total, estimate) => total + estimate.slotTotal, 0)
RECURSIVE grandTotalOf(_)
grandTotalOf(costEstimates) ==
  IF costEstimates = <<>> THEN 0
  ELSE Head(costEstimates).slotTotal + grandTotalOf(Tail(costEstimates))

\* ------------------------------------------------- the loaded catalog

ResourceConfig(cost, type, description, subDescription, rooms) ==
  [cost |-> cost, type |-> type, description |-> description,
   subDescription |-> subDescription, rooms |-> rooms]

\* The resource catalog the store returns (AdditionalCosts.resources).
CatalogResources ==
  [food |-> ResourceConfig(2555, "flat", "Cleaning Fee", "", <<>>),
   backline |->
     ResourceConfig(10000, "flat", "Backline", "",
       [living_room |-> [cost |-> 7500,
                         description |-> "Backline (Living Room)",
                         includes_projector |-> TRUE],
        main_hall |-> [cost |-> 15000, description |-> "",
                       includes_projector |-> FALSE]]),
   projector |-> ResourceConfig(5000, "flat", "Projector", "", <<>>),
   screen |-> ResourceConfig(2500, "flat", "Projector Screen", "", <<>>),
   bartender |-> ResourceConfig(3000, "hourly", "Bartender", "", <<>>),
   audio_tech |-> ResourceConfig(27500, "base", "Audio Technician", "", <<>>),
   audio_tech_overtime |->
     ResourceConfig(5000, "hourly", "Audio Technician Overtime", "", <<>>),
   door_staff |-> ResourceConfig(2000, "hourly", "Door Staff", "", <<>>),
   piano_tuning |-> ResourceConfig(12500, "flat", "Piano Tuning", "", <<>>),
   security |-> ResourceConfig(0, "custom", "Security", "", <<>>),
   catering |-> ResourceConfig(4000, "custom", "Catering", "", <<>>),
   stage |-> ResourceConfig(6000, "base", "Stage", "", <<>>)]

\* AdditionalCosts.conditions
CatalogConditions ==
  <<[roomSlug |-> "living-room", description |-> "Room setup",
     subDescription |-> "", cost |-> 1500, isRequired |-> TRUE]>>

LoadedAdditionalCosts ==
  [loaded |-> TRUE, resources |-> CatalogResources,
   conditions |-> CatalogConditions]

\* The pricing rules the store returns, keyed by roomSlug as the reduce of
\* initialize builds them (lines 150-156).  "attic" has no rules.
LoadedRules ==
  [loaded |-> TRUE,
   rooms |->
     ("main-hall" :>
        [Monday |-> DayRule(NoFullDay,
                            PeriodRule("hourly", 5000, 6500, 0, 7000),
                            PeriodRule("flat", 50000, 60000, 0, 0), 4),
         all |-> DayRule(NoFullDay,
                         PeriodRule("hourly", 5500, 7000, 0, 0),
                         PeriodRule("flat", 55000, 65000, 0, 0), 0)])
     @@ ("living-room" :>
        [all |-> DayRule(NoFullDay,
                         PeriodRule("hourly", 4000, 6000, 0, 0),
                         PeriodRule("hourly", 8000, 9000, 2, 0), 0)])
     @@ ("parking-lot" :>
        [all |-> DayRule(FullDayRule("flat", 100000, 120000, 0),
                         NoPeriod, NoPeriod, 0)])
     @@ ("southern-cross" :>
        [Monday |-> DayRule(NoFullDay,
                            PeriodRule("hourly", 3000, 4500, 2, 0),
                            NoPeriod, 0)])]

\* ------------------------------------------------------------ requests

MaxBatch == 2

MaxCalls == 2

MAX_RETRIES == 3

\* 10:00-12:00 in the main hall with food
bookingA ==
  Booking("b1", <<"main-hall">>, 600, 720, "Monday", FALSE, FALSE, 50,
          <<"food">>)

\* 15:00-19:00, private, two rooms, no id
bookingB ==
  Booking("", <<"living-room", "parking-lot">>, 900, 1140, "Monday", TRUE,
          TRUE, 120, <<"projector", "backline">>)

\* unparseable start time
bookingBadStart ==
  Booking("b2", <<"main-hall">>, NaT, 720, "Monday", FALSE, FALSE, 0, <<>>)

\* the second room has no pricing rules
bookingNoRule ==
  Booking("b3", <<"main-hall", "attic">>, 600, 720, "Monday", FALSE, FALSE,
          0, <<"food">>)

\* empty room list
bookingNoRooms ==
  Booking("b4", <<>>, 600, 720, "Monday", FALSE, FALSE, 0, <<>>)

BookingPool ==
  {bookingA, bookingB, bookingBadStart, bookingNoRule, bookingNoRooms}

Batches == UNION {[1..n -> BookingPool] : n \in 1..MaxBatch}

\* One entry of data.rentalDates: the key and its value, an array of
\* bookings or something else.
Entry(date, isArray, bookings) ==
  [date |-> date, isArray |-> isArray, bookings |-> bookings]

Requests ==
  {<<Entry(DateKey("datetime", "Monday"), TRUE, b)>> : b \in Batches}
  \cup {<<Entry(DateKey("datetime", "Saturday"), FALSE, <<b>>),
           Entry(DateKey("datetime", "Saturday"), TRUE, <<b>>)>> :
          b \in BookingPool}
  \cup {<<Entry(DateKey("invalid", ""), TRUE, <<b>>)>> : b \in BookingPool}
  \cup {<<Entry(DateKey("datetime", "Saturday"), TRUE, <<bookingB>>),
           Entry(DateKey("datetime", "Monday"), TRUE, <<bookingA>>)>>}

\* ------------------------------------------------------------- actions

Init ==
  /\ Constructed
  /\ input = <<>>
  /\ output = <<>>

\* getPrice(request) is called with a new request.
GetPrice(request) ==
  /\ pc = "idle"
  /\ calls < MaxCalls
  /\ data' = request
  /\ pc' = "initialize"
  /\ retries' = 0
  /\ calls' = calls + 1
  /\ tasks' = <<>>
  /\ customLineItems' = <<>>
  /\ response' = NoResponse
  /\ previous' = NoResponse
  /\ UNCHANGED <<rules, timePeriods, additionalCosts, taxCache,
                 totalWithTaxCache, input, output>>

\* getPrice is called again with a request equal to the one just answered;
\* the answer just given is kept in previous.
GetPriceAgain ==
  /\ pc = "idle"
  /\ calls < MaxCalls
  /\ response.returned
  /\ pc' = "initialize"
  /\ retries' = 0
  /\ calls' = calls + 1
  /\ tasks' = <<>>
  /\ customLineItems' = <<>>
  /\ previous' = response
  /\ response' = NoResponse
  /\ UNCHANGED <<rules, timePeriods, additionalCosts, taxCache,
                 totalWithTaxCache, data, input, output>>

\* initialize returns at once: everything is loaded (line 135), or the rules
\* are and the fetch block is skipped (line 138).
InitializeSkip ==
  /\ pc = "initialize"
  /\ rules.loaded
  /\ pc' = "start"
  /\ UNCHANGED <<rules, timePeriods, additionalCosts, taxCache,
                 totalWithTaxCache, retries, data, tasks, customLineItems,
                 response, calls, previous, input, output>>

InitializeEnterLoop ==
  /\ pc = "initialize"
  /\ ~rules.loaded
  /\ pc' = "fetch"
  /\ UNCHANGED <<rules, timePeriods, additionalCosts, taxCache,
                 totalWithTaxCache, retries, data, tasks, customLineItems,
                 response, calls, previous, input, output>>

\* One pass of the retry loop in which every fetch succeeds (lines 143-165).
FetchSucceeds ==
  /\ pc = "fetch"
  /\ rules' = LoadedRules
  /\ timePeriods' = TRUE
  /\ additionalCosts' = LoadedAdditionalCosts
  /\ pc' = "start"
  /\ UNCHANGED <<taxCache, totalWithTaxCache, retries, data, tasks,
                 customLineItems, response, calls, previous, input, output>>

\* One pass of the retry loop in which a fetch throws: before the rules are
\* assigned ("rules"), after them ("timePeriods"), or after the time periods
\* ("additionalCosts").  The third failure is rethrown to getPrice's caller;
\* after an earlier one the loop waits.
FetchFailsSwallowed(failing) ==
  /\ pc = "fetch"
  /\ rules' = IF failing = "rules" THEN rules ELSE LoadedRules
  /\ timePeriods' = IF failing = "additionalCosts" THEN TRUE ELSE timePeriods
  /\ retries' = retries + 1
  /\ pc' = IF retries + 1 >= MAX_RETRIES THEN "start" ELSE "wait"
  /\ UNCHANGED <<additionalCosts, taxCache, totalWithTaxCache, data, tasks,
                 customLineItems, response, calls, previous, input, output>>

FetchFails(failing) ==
  /\ pc = "fetch"
  /\ rules' = IF failing = "rules" THEN rules ELSE LoadedRules
  /\ timePeriods' = IF failing = "additionalCosts" THEN TRUE ELSE timePeriods
  /\ retries' = retries + 1
  /\ pc' = IF retries + 1 >= MAX_RETRIES THEN "idle" ELSE "wait"
  /\ response' = IF retries + 1 >= MAX_RETRIES
                 THEN [NoResponse EXCEPT !.threw = TRUE] ELSE response
  /\ UNCHANGED <<additionalCosts, taxCache, totalWithTaxCache, data, tasks,
                 customLineItems, calls, previous, input, output>>

\* The 2 second timer set after a failed pass that was not the last has
\* fired (line 177): the loop makes its next pass.
RetryAfterWait ==
  /\ pc = "wait"
  /\ pc' = "fetch"
  /\ UNCHANGED <<rules, timePeriods, additionalCosts, taxCache,
                 totalWithTaxCache, retries, data, tasks, customLineItems,
                 response, calls, previous, input, output>>

\* The synchronous part of getPrice after initialize: every map callback runs
\* to its first await, in order (lines 241-398).
StartTasks ==
  /\ pc = "start"
  /\ tasks' = startTasks(data, additionalCosts)
  /\ data' = preparedEntries(data)
  /\ pc' = "tasks"
  /\ UNCHANGED <<rules, timePeriods, additionalCosts, taxCache,
                 totalWithTaxCache, retries, customLineItems, response,
                 calls, previous, input, output>>

\* calculatePrice of task i resumes after its await and runs to its end.
TaskPrice(i) ==
  /\ pc = "tasks"
  /\ tasks[i].at = "costs"
  /\ LET t == tasks[i]
         done == calculatePriceFinish(
                   calculatePriceArgument(t.booking, t.date), t.costs, rules)
     IN /\ rules' = done.rules
        /\ tasks' = [tasks EXCEPT
                       ![i].price = done.price,
                       ![i].at = IF done.price.error # "" THEN "rejected"
                                 ELSE "priced"]
  /\ UNCHANGED <<timePeriods, additionalCosts, taxCache, totalWithTaxCache,
                 pc, retries, data, customLineItems, response, calls,
                 previous, input, output>>

\* The map callback of task i resumes with calculatePrice's result and
\* returns its estimate (lines 273-377).
TaskReturn(i) ==
  /\ pc = "tasks"
  /\ tasks[i].at = "priced"
  /\ LET t == tasks[i] IN
     /\ tasks' = [tasks EXCEPT
                    ![i].at = "done",
                    ![i].settled = settledCount(tasks) + 1,
                    ![i].estimate = pricedEstimate(t.booking, t.date, t.price)]
     /\ customLineItems' =
          IF t.price.slotCustomLineItems # <<>>
          THEN (t.booking.id :> t.price.slotCustomLineItems)
               @@ customLineItems
          ELSE customLineItems
  /\ UNCHANGED <<rules, timePeriods, additionalCosts, taxCache,
                 totalWithTaxCache, pc, retries, data, response, calls,
                 previous, input, output>>

\* The map callback of task i resumes with calculatePrice's rejection and
\* returns the error estimate (lines 378-393).
TaskCatch(i) ==
  /\ pc = "tasks"
  /\ tasks[i].at = "rejected"
  /\ LET t == tasks[i] IN
     tasks' = [tasks EXCEPT
                 ![i].at = "done",
                 ![i].settled = settledCount(tasks) + 1,
                 ![i].estimate = errorEstimate(t.booking, t.date,
                                               t.price.error)]
  /\ UNCHANGED <<rules, timePeriods, additionalCosts, taxCache,
                 totalWithTaxCache, pc, retries, data, customLineItems,
                 response, calls, previous, input, output>>

\* Promise.all has resolved: totals, tax and the return (lines 400-414).
Return ==
  /\ pc = "tasks"
  /\ \A i \in DOMAIN tasks : tasks[i].at = "done"
  /\ LET costEstimates == resolvedCostEstimates(tasks)
         grandTotal == grandTotalOf(costEstimates)
         t == calculateTax(grandTotal, taxCache)
         w == calculateTotalWithTax(grandTotal, t.cache, totalWithTaxCache)
     IN /\ response' = [returned |-> TRUE, threw |-> FALSE,
                        costEstimates |-> costEstimates,
                        customLineItems |-> customLineItems,
                        grandTotal |-> grandTotal, tax |-> t.tax,
                        totalWithTax |-> w.total]
        /\ taxCache' = w.cache
        /\ totalWithTaxCache' = w.totalCache
  /\ pc' = "idle"
  /\ UNCHANGED <<rules, timePeriods, additionalCosts, retries, data, tasks,
                 customLineItems, calls, previous, input, output>>

Next ==
  \/ \E request \in Requests : GetPrice(request)
  \/ GetPriceAgain
  \/ InitializeSkip
  \/ InitializeEnterLoop
  \/ FetchSucceeds
  \/ \E failing \in {"rules", "timePeriods", "additionalCosts"} :
       FetchFails(failing)
  \/ RetryAfterWait
  \/ StartTasks
  \/ \E i \in DOMAIN tasks : TaskPrice(i)
  \/ \E i \in DOMAIN tasks : TaskReturn(i)
  \/ \E i \in DOMAIN tasks : TaskCatch(i)
  \/ Return

Spec == Init /\ [][Next]_vars

\* --------------------------------------------- properties of getPrice

\* The bookings of a request that getPrice prices, in order: those of the
\* entries whose value is an array.
RECURSIVE requested(_)
requested(entries) ==
  IF entries = <<>> THEN <<>>
  ELSE (IF Head(entries).isArray
        THEN [i \in DOMAIN Head(entries).bookings |->
                [date |-> Head(entries).date,
                 booking |-> Head(entries).bookings[i]]]
        ELSE <<>>)
       \o requested(Tail(entries))

\* What makes a booking of the pool unpriceable under date key date, read
\* off the request and the stored rules alone.
unpriceable(booking, date) ==
  \/ booking.roomSlugs = <<>>
  \/ booking.date = ""
  \/ booking.startTime = NaT
  \/ booking.endTime = NaT
  \/ date.form = "invalid"
  \/ \E i \in DOMAIN booking.roomSlugs :
       \/ booking.roomSlugs[i] \notin DOMAIN LoadedRules.rooms
       \/ {date.day, "all"}
            \cap DOMAIN LoadedRules.rooms[booking.roomSlugs[i]] = {}

RECURSIVE sumSlotTotals(_)
sumSlotTotals(costEstimates) ==
  IF costEstimates = <<>> THEN 0
  ELSE Head(costEstimates).slotTotal + sumSlotTotals(Tail(costEstimates))

priced(e) == e.error = ""

\* C1: a booking that cannot be priced never aborts the batch: the result
\* has one cost estimate per booking of every array-valued date, in order;
\* the failed booking's entry has slotTotal 0, empty estimates and
\* perSlotCosts and a non-empty error; every other booking is priced, one
\* room estimate per room; grandTotal is the sum over the priced bookings.
C1_FailureIsolated ==
  response.returned =>
    LET asked == requested(data) IN
    /\ Len(response.costEstimates) = Len(asked)
    /\ \A i \in DOMAIN asked :
         LET e == response.costEstimates[i]
             b == asked[i].booking
         IN IF unpriceable(b, asked[i].date)
            THEN /\ e.slotTotal = 0
                 /\ e.estimates = <<>>
                 /\ e.perSlotCosts = <<>>
                 /\ e.error # ""
            ELSE /\ e.error = ""
                 /\ Len(e.estimates) = Len(b.roomSlugs)
                 /\ e.slotTotal > 0
    /\ response.grandTotal = sumSlotTotals(SelectSeq(response.costEstimates, priced))

\* a returned batch in which a failed booking is followed by a priced one
C1_Witness ==
  /\ response.returned
  /\ \E i, j \in DOMAIN response.costEstimates :
       /\ i < j
       /\ response.costEstimates[i].error # ""
       /\ response.costEstimates[j].error = ""
       /\ response.costEstimates[j].slotTotal > 0
       /\ response.grandTotal = response.costEstimates[j].slotTotal

\* C2: the grandTotal getPrice returns is the sum of the slotTotal of every
\* returned cost estimate, in whatever order the booking promises settled.
C2_GrandTotalIsSum ==
  response.returned =>
    response.grandTotal = sumSlotTotals(response.costEstimates)

\* a returned batch of two priced bookings whose second promise settled
\* before the first
C2_Witness ==
  /\ response.returned
  /\ Len(tasks) = 2
  /\ tasks[2].settled > 0
  /\ tasks[2].settled < tasks[1].settled
  /\ response.costEstimates[1].slotTotal > 0
  /\ response.costEstimates[2].slotTotal > 0

\* C3: tax is the grand total times 0.13 rounded to the cent and
\* totalWithTax the grand total plus the tax, on every call, whether the
\* values are computed or come from the caches.
C3_Tax ==
  response.returned =>
    /\ 100 * response.tax - 13 * response.grandTotal \in -49..50
    /\ response.totalWithTax = response.grandTotal + response.tax

\* a repeated call, answered from the caches the first call filled, with a
\* tax that needed rounding
C3_Witness ==
  /\ response.returned
  /\ previous.returned
  /\ response.grandTotal > 0
  /\ (13 * response.grandTotal) % 100 # 0
  /\ response.grandTotal \in DOMAIN taxCache
  /\ response.grandTotal \in DOMAIN totalWithTaxCache

\* the numeric fields, costs and descriptions of an answer, without ids
numbers(r) ==
  [grandTotal |-> r.grandTotal, tax |-> r.tax,
   totalWithTax |-> r.totalWithTax,
   bookings |-> [i \in DOMAIN r.costEstimates |->
                   [slotTotal |-> r.costEstimates[i].slotTotal,
                    estimates |-> r.costEstimates[i].estimates,
                    perSlotCosts |-> r.costEstimates[i].perSlotCosts,
                    customLineItems |->
                      r.costEstimates[i].customLineItems]]]

\* C8: getPrice called again on the same instance with an equal request
\* returns the same totals, tax, room estimates and line items.
C8_Idempotent ==
  (previous.returned /\ response.returned) =>
    numbers(previous) = numbers(response)

\* a repeated call whose first call rewrote the stored main-hall rule: the
\* rule's own daytime minimum is 0 and the estimate carries the top-level 4
C8_Witness ==
  /\ previous.returned
  /\ response.returned
  /\ LoadedRules.rooms["main-hall"].Monday.daytime.minimumHours = 0
  /\ \E i \in DOMAIN response.costEstimates :
       \E k \in DOMAIN response.costEstimates[i].estimates :
         /\ response.costEstimates[i].estimates[k].roomSlug = "main-hall"
         /\ response.costEstimates[i].estimates[k].daytimeMinHours = 4

\* C15: a call makes at most 3 fetch passes; a successful pass ends the
\* loop; the loop waits only after a failed pass that another pass follows;
\* when the third pass fails getPrice throws to its caller, with no booking
\* priced and nothing returned.
C15_CatalogLoading ==
  /\ retries <= MAX_RETRIES
  /\ pc \in {"fetch", "wait"} =>
       (retries < MAX_RETRIES /\ ~additionalCosts.loaded)
  /\ pc = "wait" => retries >= 1
  /\ pc \in {"start", "tasks"} => retries < MAX_RETRIES
  /\ retries = MAX_RETRIES =>
       /\ pc = "idle"
       /\ response.threw
       /\ ~response.returned
       /\ response.costEstimates = <<>>
       /\ tasks = <<>>
  /\ response.threw => retries = MAX_RETRIES

\* a call of a request with a priceable booking that threw after three
\* failed passes, the second of which got as far as the rules
C15_Witness ==
  /\ response.threw
  /\ retries = MAX_RETRIES
  /\ rules.loaded
  /\ ~additionalCosts.loaded
  /\ \E i \in DOMAIN requested(data) :
       ~unpriceable(requested(data)[i].booking, requested(data)[i].date)

\* C25: the cost estimates come back in the order of the request, date key
\* by date key and booking by booking, whatever the order in which the
\* pricing tasks finished.
C25_RequestOrder ==
  response.returned =>
    LET asked == requested(data) IN
    /\ Len(response.costEstimates) = Len(asked)
    /\ \A i \in DOMAIN asked :
         /\ response.costEstimates[i].id = estimateId(asked[i].booking)
         /\ response.costEstimates[i].date = asked[i].date
         /\ response.costEstimates[i].start = asked[i].booking.startTime
         /\ response.costEstimates[i].end = asked[i].booking.endTime

\* two different bookings, the second of which finished first
C25_Witness ==
  /\ response.returned
  /\ Len(tasks) = 2
  /\ tasks[1].settled = 2
  /\ tasks[2].settled = 1
  /\ response.costEstimates[1].id # response.costEstimates[2].id

\* C26: getPrice goes on to price only with the rules, the time periods and
\* the resource catalog all loaded, also after an earlier call whose
\* initialize failed with part of them loaded.
C26_FullyLoaded ==
  pc \in {"start", "tasks"} =>
    (rules.loaded /\ timePeriods /\ additionalCosts.loaded)

\* C27: every priced booking with custom line items has exactly its items
\* in the response's customLineItems map under the id of its cost estimate,
\* also when the booking was submitted without an id.
C27_CustomLineItemsKeyed ==
  response.returned =>
    \A i \in DOMAIN response.costEstimates :
      LET e == response.costEstimates[i] IN
      (e.error = "" /\ e.customLineItems # <<>>) =>
        /\ e.id \in DOMAIN response.customLineItems
        /\ response.customLineItems[e.id] = e.customLineItems

\* ----------------------------------- one booking priced on its own

BookingRooms ==
  {<<>>, <<"main-hall">>, <<"living-room">>, <<"parking-lot">>,
   <<"southern-cross">>, <<"attic">>, <<"living-room", "parking-lot">>,
   <<"main-hall", "attic">>}

\* unparseable, 10:00, 15:00, 19:00
BookingStarts == {NaT, 600, 900, 1140}

\* unparseable, 10:00, 12:00, 19:00, 22:00
BookingEnds == {NaT, 600, 720, 1140, 1320}

BookingDateKeys ==
  {DateKey("datetime", "Monday"), DateKey("datetime", "Saturday"),
   DateKey("date", "Monday"), DateKey("date", "Saturday"),
   DateKey("invalid", "")}

BookingDates == {"", "Monday", "Saturday"}

BookingAttendances == {50, 120}

BookingResources ==
  {<<>>, <<"food">>, <<"bartender", "catering">>,
   <<"projector", "backline">>, <<"security">>}

\* 03:00, 10:00, 17:00
SouthernCrossStarts == {180, 600, 1020}

\* 04:00, 17:00, 17:30, 10:00 next day
SouthernCrossEnds == {240, 1020, 1050, 2040}

SouthernCrossDates == {"Monday", "Saturday", "Sunday"}

\* bookings whose times are full ISO strings, main-hall bookings whose
\* times are written HH:mm, and Southern Cross bookings around the hours
\* the room is available
BookingSpace ==
  {Booking("b1", roomSlugs, startTime, endTime, date, private, isPrivate,
           expectedAttendance, resources) :
     roomSlugs \in BookingRooms, startTime \in BookingStarts,
     endTime \in BookingEnds, date \in BookingDates, private \in BOOLEAN,
     isPrivate \in BOOLEAN, expectedAttendance \in BookingAttendances,
     resources \in BookingResources}
  \cup
  {[Booking("b1", <<"main-hall">>, startTime, endTime, date, FALSE, FALSE,
            50, <<>>) EXCEPT !.timeForm = "clock"] :
     startTime \in BookingStarts, endTime \in BookingEnds,
     date \in BookingDates}
  \cup
  {Booking("b1", <<"southern-cross">>, startTime, endTime, date, FALSE,
           FALSE, 50, <<>>) :
     startTime \in SouthernCrossStarts, endTime \in SouthernCrossEnds,
     date \in SouthernCrossDates}

\* getPrice has been called with one booking under one date key and
\* initialize has loaded the catalog.
InitBooking ==
  /\ rules = LoadedRules
  /\ timePeriods = TRUE
  /\ additionalCosts = LoadedAdditionalCosts
  /\ taxCache = <<>>
  /\ totalWithTaxCache = <<>>
  /\ pc = "start"
  /\ retries = 0
  /\ \E date \in BookingDateKeys, booking \in BookingSpace :
       data = <<Entry(date, TRUE, <<booking>>)>>
  /\ tasks = <<>>
  /\ customLineItems = <<>>
  /\ response = NoResponse
  /\ calls = 1
  /\ previous = NoResponse
  /\ input = <<>>
  /\ output = <<>>

NextBooking ==
  \/ StartTasks
  \/ \E i \in DOMAIN tasks : TaskPrice(i)
  \/ \E i \in DOMAIN tasks : TaskReturn(i)
  \/ \E i \in DOMAIN tasks : TaskCatch(i)
  \/ Return

SpecBooking == InitBooking /\ [][NextBooking]_vars

\* the one booking asked for, its date key and its cost estimate
theBooking == data[1].bookings[1]

theDateKey == data[1].date

theEstimate == response.costEstimates[1]

\* C11: a booking whose end is not strictly after its start is rejected
\* before anything is priced: it comes back as an error entry and adds 0 to
\* the grand total.
C11_InvertedWindowRejected ==
  (/\ response.returned
   /\ theBooking.startTime # NaT
   /\ theBooking.endTime # NaT
   /\ theBooking.endTime <= theBooking.startTime) =>
    /\ theEstimate.error # ""
    /\ theEstimate.estimates = <<>>
    /\ theEstimate.slotTotal = 0
    /\ response.grandTotal = 0

\* the booking passes every check made before the rooms are priced
wellFormed ==
  /\ theBooking.roomSlugs # <<>>
  /\ theBooking.date # ""
  /\ theBooking.startTime # NaT
  /\ theBooking.endTime # NaT
  /\ theDateKey.form # "invalid"
  /\ validateSouthernCross(calculatePriceArgument(theBooking, theDateKey))
       = ""

\* the room has a rule for the weekday or for "all"
resolvable(roomSlug, day) ==
  /\ roomSlug \in DOMAIN LoadedRules.rooms
  /\ {day, "all"} \cap DOMAIN LoadedRules.rooms[roomSlug] # {}

\* the loaded rule of the room for the weekday, else its "all" rule
resolved(roomSlug, day) ==
  IF day \in DOMAIN LoadedRules.rooms[roomSlug]
  THEN LoadedRules.rooms[roomSlug][day]
  ELSE LoadedRules.rooms[roomSlug].all

\* C12: every room is priced with its rule for the weekday of the date the
\* booking is filed under, else with its "all" rule; a room with neither
\* (or without rules) turns the booking into an error entry.
C12_DayRuleResolution ==
  (response.returned /\ wellFormed) =>
    IF \A i \in DOMAIN theBooking.roomSlugs :
         resolvable(theBooking.roomSlugs[i], theDateKey.day)
    THEN /\ theEstimate.error = ""
         /\ Len(theEstimate.estimates) = Len(theBooking.roomSlugs)
         /\ \A i \in DOMAIN theBooking.roomSlugs :
              theEstimate.estimates[i].basePrice
                = calculateRoomPrice(
                    theBooking.startTime, theBooking.endTime,
                    distributeMinimumHours(
                      resolved(theBooking.roomSlugs[i], theDateKey.day)),
                    theBooking.private).basePrice
    ELSE /\ theEstimate.error # ""
         /\ theEstimate.slotTotal = 0

\* the sum of the cost fields of the first n items
RECURSIVE costOfFirst(_, _)
costOfFirst(items, n) ==
  IF n = 0 THEN 0 ELSE items[n].cost + costOfFirst(items, n - 1)

RECURSIVE totalCostOfFirst(_, _)
totalCostOfFirst(estimates, n) ==
  IF n = 0 THEN 0
  ELSE estimates[n].totalCost + totalCostOfFirst(estimates, n - 1)

\* C13: in a priced booking every room estimate's totalCost is its
\* basePrice plus its additional cost items, and slotTotal is the sum of
\* the rooms' totalCost, the perSlotCosts and the custom line items.
C13_Totals ==
  (response.returned /\ theEstimate.error = "") =>
    /\ \A i \in DOMAIN theEstimate.estimates :
         LET e == theEstimate.estimates[i] IN
         e.totalCost
           = e.basePrice
             + costOfFirst(e.additionalCosts, Len(e.additionalCosts))
    /\ theEstimate.slotTotal
         = totalCostOfFirst(theEstimate.estimates,
                            Len(theEstimate.estimates))
           + costOfFirst(theEstimate.perSlotCosts,
                         Len(theEstimate.perSlotCosts))
           + costOfFirst(theEstimate.customLineItems,
                         Len(theEstimate.customLineItems))

\* a priced two-room booking with a room item, per-slot items and a custom
\* line item that costs something
C13_Witness ==
  /\ response.returned
  /\ theEstimate.error = ""
  /\ Len(theEstimate.estimates) = 2
  /\ \E i \in DOMAIN theEstimate.estimates :
       /\ theEstimate.estimates[i].additionalCosts # <<>>
       /\ theEstimate.estimates[i].totalCost
            > theEstimate.estimates[i].basePrice
  /\ theEstimate.perSlotCosts # <<>>
  /\ \E k \in DOMAIN theEstimate.customLineItems :
       theEstimate.customLineItems[k].cost > 0

\* C16: pricing leaves its inputs as they were: no step of a getPrice call
\* changes the loaded rule catalog, the loaded resource catalog or the
\* booking objects of the request.
C16_InputsUnchanged ==
  [][/\ rules.loaded => rules' = rules
     /\ additionalCosts.loaded => additionalCosts' = additionalCosts
     /\ pc # "idle" => data' = data]_vars

\* the bartender item of a comped private event
bartenderComped ==
  \E k \in DOMAIN theEstimate.perSlotCosts :
    /\ theEstimate.perSlotCosts[k].description
         = CatalogResources.bartender.description
    /\ theEstimate.perSlotCosts[k].subDescription
         = "Comped for large private event"
    /\ theEstimate.perSlotCosts[k].cost = 0

\* C17: a priced booking is billed the private tier exactly when its
\* isPrivate flag is true: every room's base price is the one its day rule
\* gives for that flag, and a requested bartender is comped exactly when the
\* flag is true and more than 100 people are expected.
C17_PrivacyTier ==
  (response.returned /\ theEstimate.error = "") =>
    /\ \A i \in DOMAIN theEstimate.estimates :
         theEstimate.estimates[i].basePrice
           = calculateRoomPrice(
               theBooking.startTime, theBooking.endTime,
               getDayRules(LoadedRules.rooms[theBooking.roomSlugs[i]],
                           formatEEEE(theDateKey)).rules,
               theBooking.isPrivate).basePrice
    /\ inSeq("bartender", theBooking.resources) =>
         (bartenderComped
            <=> (theBooking.isPrivate
                   /\ theBooking.expectedAttendance
                        > BARTENDER_COMP_ATTENDANCE))

southernCrossMessages ==
  {"Southern Cross is not available for weekend bookings",
   "Southern Cross is only available during daytime hours (before 5 PM)"}

\* the booking reaches calculatePrice with a start and an end
reachesPricing ==
  /\ theBooking.roomSlugs # <<>>
  /\ theBooking.date # ""
  /\ theBooking.startTime # NaT
  /\ theBooking.endTime # NaT

\* the start is on a weekend, or start or end is outside 05:00-17:00
outsideSouthernCrossHours ==
  \/ theBooking.date \in {"Saturday", "Sunday"}
  \/ theBooking.startTime % 1440 >= 1020
  \/ theBooking.endTime % 1440 > 1020
  \/ theBooking.startTime % 1440 < 300
  \/ theBooking.endTime % 1440 < 300

\* C30: a booking that includes "southern-cross" comes back as an error
\* entry with slotTotal 0 when it starts on a Saturday or Sunday, starts at
\* or after 17:00, ends after 17:00, or starts or ends before 05:00; on a
\* weekday within 05:00-17:00, an end at exactly 17:00 included, it is not
\* rejected by this check and is priced when its date has a rule; a booking
\* without that room never gets one of the Southern Cross messages.
C30_SouthernCross ==
  (response.returned /\ reachesPricing) =>
    IF inSeq("southern-cross", theBooking.roomSlugs)
    THEN IF outsideSouthernCrossHours
         THEN /\ theEstimate.error \in southernCrossMessages
              /\ theEstimate.estimates = <<>>
              /\ theEstimate.slotTotal = 0
         ELSE /\ theEstimate.error \notin southernCrossMessages
              /\ theDateKey = DateKey("datetime", "Monday") =>
                   (theEstimate.error = "" /\ theEstimate.estimates # <<>>)
    ELSE theEstimate.error \notin southernCrossMessages

\* a Monday booking of Southern Cross from 10:00 to exactly 17:00 is priced
C30_Witness ==
  /\ response.returned
  /\ theBooking.roomSlugs = <<"southern-cross">>
  /\ theBooking.date = "Monday"
  /\ theBooking.startTime = 600
  /\ theBooking.endTime = 1020
  /\ theDateKey = DateKey("datetime", "Monday")
  /\ theEstimate.error = ""
  /\ theEstimate.slotTotal > 0

\* C28: calculateSlotTotal of the returned estimate is its slotTotal, and
\* calculateTotals of the returned list has the grandTotal getPrice returned,
\* custom line items with a cost included.
C28_TotalsAgree ==
  response.returned =>
    /\ calculateSlotTotal(theEstimate) = theEstimate.slotTotal
    /\ calculateTotals(response.costEstimates).grandTotal = response.grandTotal

\* ------------------------------ additional costs checked on their own

MaxResources == 2

ResourceIds ==
  {"food", "projector", "backline", "bartender", "audio_tech", "door_staff",
   "security", "catering", "stage", "piano_tuning", "screen", "ghost"}

\* resource lists without repetition
ResourceLists ==
  {r \in UNION {[1..n -> ResourceIds] : n \in 0..MaxResources} :
     \A i, j \in DOMAIN r : i # j => r[i] # r[j]}

CostRooms ==
  {<<"main-hall">>, <<"living-room">>, <<"parking-lot">>,
   <<"living-room", "main-hall">>, <<"main-hall", "living-room">>}

\* 10:00-12:00, 15:00-19:00, 10:00-20:00, 10:30-12:00, 17:30-20:00,
\* 18:30-20:00
CostTimes ==
  {<<600, 720>>, <<900, 1140>>, <<600, 1200>>, <<630, 720>>, <<1050, 1200>>,
   <<1110, 1200>>}

CostAudiences ==
  {<<FALSE, 50>>, <<TRUE, 50>>, <<TRUE, 100>>, <<TRUE, 120>>, <<FALSE, 120>>}

\* the loaded catalog, and one whose resources have no "security" entry
CostCatalogs ==
  {LoadedAdditionalCosts,
   [LoadedAdditionalCosts EXCEPT
      !.resources = [id \in DOMAIN CatalogResources \ {"security"} |->
                       CatalogResources[id]]]}

InitCosts ==
  /\ Constructed
  /\ \E roomSlugs \in CostRooms, resources \in ResourceLists,
        time \in CostTimes, audience \in CostAudiences,
        catalog \in CostCatalogs :
       input = [catalog |-> catalog, roomSlugs |-> roomSlugs, startTime |-> time[1],
                endTime |-> time[2], startDay |-> "Monday",
                date |-> DateKey("datetime", "Monday"),
                isPrivate |-> audience[1],
                expectedAttendance |-> audience[2], resources |-> resources]
  /\ output = <<>>

\* calculateAdditionalCosts(input) on an instance whose catalog is loaded
CalculateAdditionalCosts ==
  /\ output = <<>>
  /\ output' = <<calculateAdditionalCosts(input, input.catalog)>>
  /\ UNCHANGED <<instanceVars, input>>

NextCosts == CalculateAdditionalCosts

SpecCosts == InitCosts /\ [][NextCosts]_vars

costsDone == output # <<>>

\* the booked room's backline override bundles the projector
bundled(roomSlug) ==
  LET rooms == CatalogResources.backline.rooms IN
  /\ configRoomSlug(roomSlug) \in DOMAIN rooms
  /\ rooms[configRoomSlug(roomSlug)].includes_projector

projectorItems ==
  {i \in DOMAIN output[1].perSlotCosts :
     /\ output[1].perSlotCosts[i].description
          = CatalogResources.projector.description
     /\ output[1].perSlotCosts[i].cost = CatalogResources.projector.cost}

\* C10: when "projector" is requested, a projector item with the catalog
\* cost is emitted for every booked room unless "backline" is requested too
\* and that room's backline override has includes_projector; so a booking
\* with a room that is not suppressed carries a projector item, and a booking
\* whose rooms are all suppressed carries none.
C10_ProjectorBundling ==
  (costsDone /\ inSeq("projector", input.resources)) =>
    LET suppressed(roomSlug) ==
          inSeq("backline", input.resources) /\ bundled(roomSlug)
    IN IF \E i \in DOMAIN input.roomSlugs : ~suppressed(input.roomSlugs[i])
       THEN projectorItems # {}
       ELSE projectorItems = {}

\* the backline override of a room, if the resource's room map has one
hasOverride(roomSlug) ==
  configRoomSlug(roomSlug) \in DOMAIN CatalogResources.backline.rooms

override(roomSlug) ==
  CatalogResources.backline.rooms[configRoomSlug(roomSlug)]

backlineItems ==
  {k \in DOMAIN output[1].perSlotCosts :
     \/ output[1].perSlotCosts[k].description
          = CatalogResources.backline.description
     \/ \E key \in DOMAIN CatalogResources.backline.rooms :
          output[1].perSlotCosts[k].description
            = CatalogResources.backline.rooms[key].description}

\* C18: a booking that requests "backline" gets one backline item per booked
\* room, at the cost of that room's override in the backline room map and at
\* the resource's base cost when the room has none.
C18_BacklinePerRoom ==
  (costsDone /\ inSeq("backline", input.resources)) =>
    /\ Cardinality(backlineItems) = Len(input.roomSlugs)
    /\ \A i \in DOMAIN input.roomSlugs :
         \E k \in backlineItems :
           output[1].perSlotCosts[k].cost
             = IF hasOverride(input.roomSlugs[i])
               THEN override(input.roomSlugs[i]).cost
               ELSE CatalogResources.backline.cost

earlyOpenItems ==
  {k \in DOMAIN output[1].perSlotCosts :
     output[1].perSlotCosts[k].subDescription
       = "Additional staff for early opening"}

\* C19: a booking that starts before 18:00 of its start date gets exactly
\* one early-opening item, required, at 30 per hour from the start to 18:00
\* with a started hour counted in full; one that starts at 18:00 or later
\* gets none.
C19_EarlyOpening ==
  costsDone =>
    LET opening == setHours(input.startTime, OPENING_HOUR)
        started == (opening - input.startTime + 59) \div 60
    IN IF input.startTime < opening
       THEN /\ Cardinality(earlyOpenItems) = 1
            /\ \A k \in earlyOpenItems :
                 /\ output[1].perSlotCosts[k].isRequired
                 /\ output[1].perSlotCosts[k].cost = started * EARLY_OPEN_RATE
       ELSE earlyOpenItems = {}

securityItems ==
  {k \in DOMAIN output[1].customLineItems :
     output[1].customLineItems[k].description
       = CatalogResources.security.description}

needsSecurity ==
  \/ inSeq("parking-lot", input.roomSlugs)
  \/ inSeq("security", input.resources)

securityAsClaimed ==
  IF needsSecurity
  THEN /\ Cardinality(securityItems) = 1
       /\ \A k \in securityItems :
            /\ output[1].customLineItems[k].cost = 0
            /\ output[1].customLineItems[k].isEditable
            /\ output[1].customLineItems[k].isRequired
                 <=> inSeq("parking-lot", input.roomSlugs)
  ELSE securityItems = {}

\* C20 as stated: a zero-cost editable security line item, exactly one, is
\* emitted if and only if "parking-lot" is booked or "security" is requested,
\* required if and only if "parking-lot" is booked.
C20_Security ==
  costsDone => securityAsClaimed

\* C20, amended: the same, provided the resource catalog has a "security"
\* entry; without one no security item is emitted.
C20_SecurityWithEntry ==
  costsDone =>
    IF "security" \in DOMAIN input.catalog.resources
    THEN securityAsClaimed
    ELSE securityItems = {}

\* parking-lot booked without "security" in the list: the item is required
C20_Witness ==
  /\ costsDone
  /\ "security" \in DOMAIN input.catalog.resources
  /\ inSeq("parking-lot", input.roomSlugs)
  /\ ~inSeq("security", input.resources)
  /\ \E k \in securityItems : output[1].customLineItems[k].isRequired

bartenderItems ==
  {k \in DOMAIN output[1].perSlotCosts :
     output[1].perSlotCosts[k].description
       = CatalogResources.bartender.description}

bookingHours == differenceInHours(input.endTime, input.startTime)

DefaultIds == {"door_staff", "piano_tuning", "catering", "stage"}

itemsOf(id, list) ==
  {k \in DOMAIN list : list[k].description = CatalogResources[id].description}

defaultAsClaimed(id) ==
  LET config == CatalogResources[id]
      expected == IF config.type = "hourly" THEN config.cost * bookingHours
                  ELSE config.cost
      perSlot == itemsOf(id, output[1].perSlotCosts)
      custom == itemsOf(id, output[1].customLineItems)
  IN /\ Cardinality(perSlot) + Cardinality(custom) = 1
     /\ \A k \in perSlot : output[1].perSlotCosts[k].cost = expected
     /\ \A k \in custom : output[1].customLineItems[k].cost = expected

skipsUnknown ==
  output[1] = calculateAdditionalCosts(
                [input EXCEPT !.resources = SelectSeq(@, LAMBDA id : id # "ghost")],
                input.catalog)

\* C22: every requested resource of the catalog without a rule of its own
\* yields exactly one line item, whatever its type, at the configured cost,
\* or at the rate for every whole booking hour when it is hourly; a requested
\* id the catalog does not have changes nothing.
C22_DefaultResources ==
  costsDone =>
    /\ \A id \in DefaultIds : inSeq(id, input.resources) => defaultAsClaimed(id)
    /\ skipsUnknown

\* the orders in which the requested resources can be listed
permutations(ids) ==
  {p \in ResourceLists :
     /\ Len(p) = Len(ids)
     /\ \A i \in DOMAIN ids : inSeq(ids[i], p)}

occurrences(x, list) == Cardinality({k \in DOMAIN list : list[k] = x})

sameItems(a, b) ==
  /\ Len(a) = Len(b)
  /\ \A k \in DOMAIN a : occurrences(a[k], a) = occurrences(a[k], b)

\* what calculatePrice adds to slotTotal for the three lists (lines 676-723)
costsTotal(result) ==
  sumCosts(result.perSlotCosts) + sumCosts(result.additionalCosts)
    + sumCosts(result.customLineItems)

orderIndependent(p) ==
  LET other == calculateAdditionalCosts([input EXCEPT !.resources = p],
                                        input.catalog)
  IN /\ sameItems(output[1].perSlotCosts, other.perSlotCosts)
     /\ sameItems(output[1].additionalCosts, other.additionalCosts)
     /\ sameItems(output[1].customLineItems, other.customLineItems)
     /\ costsTotal(output[1]) = costsTotal(other)

\* C23: listing the requested resources in another order gives the same
\* items in each of the three lists, up to their order, and so the same
\* contribution to the slot total.
C23_OrderIndependence ==
  costsDone => \A p \in permutations(input.resources) : orderIndependent(p)

\* ------------------------------------- room pricing checked on its own

DaytimeRules ==
  {NoPeriod,
   PeriodRule("hourly", 4000, 6000, 0, 0),
   PeriodRule("hourly", 5000, 6500, 3, 7000),
   PeriodRule("flat", 30000, 40000, 0, 35000)}

EveningRules ==
  {NoPeriod,
   PeriodRule("flat", 50000, 60000, 0, 0),
   PeriodRule("hourly", 8000, 9000, 2, 0)}

FullDayRules ==
  {NoFullDay,
   FullDayRule("flat", 100000, 120000, 0),
   FullDayRule("hourly", 10000, 12000, 4)}

TopMinimumHours == {0, 4}

DayRules ==
  {DayRule(f, d, e, m) : f \in FullDayRules, d \in DaytimeRules,
                         e \in EveningRules, m \in TopMinimumHours}

\* 03:00, 10:00, 15:00, 15:30, 17:00, 17:30, 19:00
RoomStarts == {180, 600, 900, 930, 1020, 1050, 1140}

\* 04:00, 12:00, 16:00, 17:00, 17:30, 18:00, 19:00, 02:00 and 05:00 next day
RoomEnds == {240, 720, 960, 1020, 1050, 1080, 1140, 1560, 1740}

InitRoom ==
  /\ Constructed
  /\ input \in [startDateTime : RoomStarts, endDateTime : RoomEnds,
                dayRule : DayRules, isPrivate : BOOLEAN]
  /\ output = <<>>

\* calculatePrice's work for one room: resolve the day rule, price the room,
\* push the estimate.
PriceRoom ==
  /\ output = <<>>
  /\ LET found == getDayRules([all |-> input.dayRule], "Monday")
     IN output' = <<roomEstimate("main-hall", input.startDateTime,
                                 input.endDateTime, found.rules,
                                 input.isPrivate, <<>>)>>
  /\ UNCHANGED <<instanceVars, input>>

NextRoom == PriceRoom

SpecRoom == InitRoom /\ [][NextRoom]_vars

roomPriced == output # <<>>

estimate == output[1]

\* 17:00 on the start date
boundary == eveningStartTimeOf(input.startDateTime)

validWindow == input.startDateTime < input.endDateTime

\* C4: whenever the resolved day rule has a fullDay entry, the room estimate
\* has zero daytime and evening hours and prices, no daytime or evening rate
\* (the sub-rules are not evaluated), and basePrice is the full-day price of
\* the booking's privacy tier, whatever the window.
C4_FullDayPrecedence ==
  (roomPriced /\ input.dayRule.fullDay.present) =>
    /\ estimate.daytimeHours = 0 /\ estimate.eveningHours = 0
    /\ estimate.daytimePrice = 0 /\ estimate.eveningPrice = 0
    /\ estimate.daytimeRate = 0 /\ estimate.eveningRate = 0
    /\ estimate.basePrice = tierRate(input.dayRule.fullDay, input.isPrivate)
    /\ estimate.fullDayPrice = estimate.basePrice
    /\ estimate.isFullDay

C4_Witness ==
  /\ roomPriced
  /\ input.dayRule.fullDay.present
  /\ input.dayRule.daytime.present /\ input.dayRule.evening.present
  /\ input.startDateTime < boundary /\ boundary < input.endDateTime
  /\ estimate.basePrice = 120000

\* C5: a booking that ends at or before 17:00 of its start date has no evening
\* hours and no evening price; one that starts at or after 17:00 has no
\* daytime hours and no daytime price; for every rule and privacy flag.
C5_OneSideOnly ==
  roomPriced =>
    /\ (input.endDateTime <= boundary) =>
         (estimate.eveningHours = 0 /\ estimate.eveningPrice = 0)
    /\ (input.startDateTime >= boundary) =>
         (estimate.daytimeHours = 0 /\ estimate.daytimePrice = 0)

C5_Witness ==
  /\ roomPriced /\ validWindow
  /\ input.endDateTime <= boundary
  /\ ~input.dayRule.fullDay.present
  /\ input.dayRule.evening.present /\ input.dayRule.daytime.present
  /\ estimate.daytimePrice > 0 /\ estimate.eveningPrice = 0

\* C6: when the window crosses the boundary and the daytime sub-rule defines a
\* crossoverRate, an hourly daytime segment is billed rate x actual hours, the
\* hours being at most the whole hours from start to 17:00: the daytime
\* minimum-hour floor is not applied.
C6_NoFloorOnCrossover ==
  (/\ roomPriced
   /\ ~input.dayRule.fullDay.present
   /\ input.dayRule.daytime.present
   /\ input.dayRule.daytime.type = "hourly"
   /\ input.dayRule.daytime.crossoverRate # 0
   /\ input.startDateTime < boundary /\ boundary <= input.endDateTime) =>
    /\ estimate.daytimeHours <= differenceInHours(boundary, input.startDateTime)
    /\ estimate.daytimePrice = estimate.daytimeRate * estimate.daytimeHours
    /\ estimate.crossoverApplied =>
         estimate.daytimeRate = input.dayRule.daytime.crossoverRate

C6_Witness ==
  /\ roomPriced
  /\ ~input.dayRule.fullDay.present
  /\ input.dayRule.daytime.crossoverRate = 7000
  /\ input.startDateTime < boundary /\ boundary < input.endDateTime
  /\ estimate.crossoverApplied
  /\ estimate.daytimeHours > 0
  /\ estimate.daytimeHours < estimate.daytimeMinHours
  /\ estimate.daytimePrice = 7000 * estimate.daytimeHours

\* C7 as claimed: without a fullDay rule, when the day rule sets minimumHours,
\* the booking is shorter than that and no crossover rate was applied,
\* basePrice = (daytimePrice + eveningPrice) x (minimumHours / totalBookingHours).
C7_WholeBookingFloor ==
  (/\ roomPriced /\ validWindow
   /\ ~input.dayRule.fullDay.present
   /\ input.dayRule.minimumHours # 0
   /\ estimate.totalBookingHours > 0
   /\ estimate.totalBookingHours < input.dayRule.minimumHours
   /\ ~estimate.crossoverApplied) =>
    estimate.basePrice * estimate.totalBookingHours
      = (estimate.daytimePrice + estimate.eveningPrice)
          * input.dayRule.minimumHours

\* C9 as claimed: without a fullDay rule, a daytime segment (a window starting
\* at or after 05:00 and before 17:00) is priced with daytime.crossoverRate
\* exactly when start < 17:00 <= end and the rate is defined, otherwise with
\* the tier rate; the price is the rate (flat) or rate x daytimeHours (hourly),
\* and basePrice = daytimePrice + eveningPrice.
C9_DaytimeRate ==
  (/\ roomPriced /\ validWindow
   /\ ~input.dayRule.fullDay.present
   /\ input.dayRule.daytime.present
   /\ getHours(input.startDateTime) >= MORNING_HOUR
   /\ input.startDateTime < boundary) =>
    LET daytime == input.dayRule.daytime
        rate == IF boundary <= input.endDateTime /\ daytime.crossoverRate # 0
                THEN daytime.crossoverRate
                ELSE tierRate(daytime, input.isPrivate)
    IN /\ estimate.daytimePrice =
            IF daytime.type = "flat" THEN rate
            ELSE rate * estimate.daytimeHours
       /\ estimate.basePrice = estimate.daytimePrice + estimate.eveningPrice

\* C14: with rate the full-day rate of the privacy tier, the full-day
\* price is rate for a flat full-day rule and rate times the larger of the
\* booking's hours and the rule's minimum hours for an hourly one.
C14_FullDayFormula ==
  (roomPriced /\ validWindow /\ input.dayRule.fullDay.present) =>
    LET rate == IF input.isPrivate THEN input.dayRule.fullDay.private
                ELSE input.dayRule.fullDay.public
        hours == estimate.totalBookingHours
        floor == input.dayRule.fullDay.minimumHours
    IN estimate.fullDayPrice
         = IF input.dayRule.fullDay.type = "flat" THEN rate
           ELSE rate * (IF hours > floor THEN hours ELSE floor)

\* C24: under a rule without fullDay, a valid window that ends at or before
\* 17:00 of its start date (a window in the small hours included) has, when
\* the rule has a daytime sub-rule, daytimeHours equal to the whole hours from
\* start to end and no evening hours; a window that starts at or after 17:00
\* has, when the rule has an evening sub-rule, eveningHours equal to them and
\* no daytime hours.
C24_SegmentCoverage ==
  (roomPriced /\ validWindow /\ ~input.dayRule.fullDay.present) =>
    LET whole == differenceInHours(input.endDateTime, input.startDateTime)
    IN /\ (input.endDateTime <= boundary /\ input.dayRule.daytime.present) =>
            (estimate.daytimeHours = whole /\ estimate.eveningHours = 0)
       /\ (input.startDateTime >= boundary /\ input.dayRule.evening.present) =>
            (estimate.eveningHours = whole /\ estimate.daytimeHours = 0)

\* C29: under a rule without fullDay that has both a daytime and an evening
\* sub-rule, the daytime and evening hours of a valid window add up to the
\* estimate's totalBookingHours, the whole hours from start to end, also when
\* start or end is not on the hour.
C29_HoursAddUp ==
  (/\ roomPriced
   /\ validWindow
   /\ ~input.dayRule.fullDay.present
   /\ input.dayRule.daytime.present
   /\ input.dayRule.evening.present) =>
    /\ estimate.totalBookingHours
         = differenceInHours(input.endDateTime, input.startDateTime)
    /\ estimate.daytimeHours + estimate.eveningHours
         = estimate.totalBookingHours

====
